---- MODULE Spec2Model ----
(***************************************************************************)
(* PortfolioSimulator (src/portfolio-simulator.py) as a state machine.     *)
(*                                                                         *)
(* The object's fields are the variables; every method is an action (the   *)
(* interactive get_user_input is one action per line read by input()).     *)
(* Floats are modelled as exact fractions extended with the IEEE special   *)
(* values: n/d with d > 0 is a finite number, 1/0 is +inf, -1/0 is -inf    *)
(* and 0/0 is NaN.  A missing price is NaN, as in pandas.  Irrational      *)
(* results (a power, a square root) are kept symbolically, as the operands *)
(* they are computed from.                                                 *)
(***************************************************************************)
EXTENDS Integers, Sequences, FiniteSets, TLC

VARIABLES
    initial_cash,     \* self.initial_cash
    tickers,          \* self.tickers
    weights,          \* self.weights
    data,             \* self.data
    portfolio_value,  \* self.portfolio_value
    sharpe_ratio,     \* self.sharpe_ratio
    best_stock,       \* self.best_stock
    worst_stock,      \* self.worst_stock
    start_date,       \* self.start_date, as the number of days before now
    pc,               \* position inside get_user_input, "idle" outside it
    stage,            \* position of the __main__ script, "api" for a free caller
    calls,            \* number of method calls made so far
    raw,              \* what the last yf.download of fetch_data returned
    shown,            \* the last message print() wrote that names an outcome
    raised,           \* the exception that escaped the last call, "" if none
    report,           \* the metrics printed by display_and_save_results
    chart,            \* the curves plotted on the saved figure
    files,            \* the files written to disk
    fetches,          \* number of price downloads made by fetch_data
    bench_fetches,    \* number of benchmark downloads
    bench,            \* outcome of the last benchmark download
    simulated_from    \* the table the last simulate_portfolio read

vars == <<initial_cash, tickers, weights, data, portfolio_value, sharpe_ratio,
          best_stock, worst_stock, start_date, pc, stage, calls, raw, shown,
          raised, report, chart, files, fetches, bench_fetches, bench,
          simulated_from>>

-----------------------------------------------------------------------------
(* Bounds of the model *)

\* most rows a downloaded table has in a run of the script
MaxRows == 2
\* most rows of a downloaded table given to fetch_data alone
MaxFetchRows == 3
\* most rows of a cleaned table given to simulate_portfolio alone
MaxSimRows == 3
\* most rows a downloaded table has for a free caller of the methods
MaxApiRows == 2
\* most method calls a free caller makes after get_user_input
MaxApiCalls == 4
\* most downloads a free caller's fetch_data calls make
MaxApiFetches == 2

\* program constants
TradingDays == 252
DaysPerYear == 365
DaysPerMonth == 30

-----------------------------------------------------------------------------
(* Optional values: None and a present value *)

None == [some |-> FALSE]
Some(x) == [some |-> TRUE, v |-> x]

-----------------------------------------------------------------------------
(* float: fractions with inf and NaN *)

Abs(i) == IF i < 0 THEN -i ELSE i
Sign(i) == IF i < 0 THEN -1 ELSE IF i > 0 THEN 1 ELSE 0

RECURSIVE Gcd(_, _)
Gcd(a, b) == IF b = 0 THEN a ELSE Gcd(b, a % b)

\* the float n/d in lowest terms; a zero denominator gives inf, -inf or NaN
Norm(n, d) ==
    IF d = 0 THEN [n |-> Sign(n), d |-> 0]
    ELSE LET s == IF d < 0 THEN -1 ELSE 1
             g == Gcd(Abs(n), Abs(d))
         IN  [n |-> (s * n) \div g, d |-> (s * d) \div g]

F(i) == [n |-> i, d |-> 1]
Zero == F(0)
One == F(1)
NaN == [n |-> 0, d |-> 0]
Inf == [n |-> 1, d |-> 0]

IsNaN(a) == a.n = 0 /\ a.d = 0
IsFinite(a) == a.d > 0

\* the product (n1/d1) * (n2/d2), cancelling before multiplying
Frac(n1, d1, n2, d2) ==
    LET g1 == Gcd(Abs(n1), Abs(d2))
        g2 == Gcd(Abs(n2), Abs(d1))
        x1 == IF g1 = 0 THEN 1 ELSE g1
        x2 == IF g2 = 0 THEN 1 ELSE g2
    IN  Norm((n1 \div x1) * (n2 \div x2), (d1 \div x2) * (d2 \div x1))
Mul(a, b) == Frac(a.n, a.d, b.n, b.d)
Div(a, b) == Frac(a.n, a.d, b.d, b.n)
Neg(a) == [n |-> -a.n, d |-> a.d]
Add(a, b) ==
    IF a.d = 0 /\ b.d = 0
    THEN IF a.n = b.n THEN a ELSE NaN
    ELSE IF a.d = 0 \/ b.d = 0
    THEN Norm(a.n * b.d + b.n * a.d, 0)
    ELSE LET g == Gcd(a.d, b.d)
         IN  Norm(a.n * (b.d \div g) + b.n * (a.d \div g), (a.d \div g) * b.d)
Sub(a, b) == Add(a, Neg(b))

\* comparisons: every comparison with NaN is false
Lt(a, b) ==
    /\ ~IsNaN(a)
    /\ ~IsNaN(b)
    /\ IF a.d = 0 /\ b.d = 0 THEN a.n < b.n ELSE a.n * b.d < b.n * a.d
Le(a, b) ==
    /\ ~IsNaN(a)
    /\ ~IsNaN(b)
    /\ IF a.d = 0 /\ b.d = 0 THEN a.n <= b.n ELSE a.n * b.d <= b.n * a.d
Gt(a, b) == Lt(b, a)
Ge(a, b) == Le(b, a)
FloatEq(a, b) == Le(a, b) /\ Le(b, a)

RECURSIVE SumSeq(_)
SumSeq(s) == IF s = <<>> THEN Zero ELSE Add(Head(s), SumSeq(Tail(s)))

\* pandas sum(skipna=True): missing terms are left out, an empty sum is 0
DropNaN(s) == SelectSeq(s, LAMBDA x : ~IsNaN(x))
SumSkipNa(s) == SumSeq(DropNaN(s))

-----------------------------------------------------------------------------
(* Price tables: cols is the column order, rows[i][j] the price of column j *)
(* on the i-th date (NaN where the price is missing)                        *)

Table(cols, rows) == [cols |-> cols, rows |-> rows]

NumRows(t) == Len(t.rows)
NumCols(t) == Len(t.cols)
HasColumn(t, ticker) == \E j \in 1..NumCols(t) : t.cols[j] = ticker
ColIndex(t, ticker) == CHOOSE j \in 1..NumCols(t) : t.cols[j] = ticker
\* self.data[ticker].iloc[i - 1]
Price(t, ticker, i) == t.rows[i][ColIndex(t, ticker)]

RowHasNa(r) == \E j \in 1..Len(r) : IsNaN(r[j])

\* DataFrame.empty
IsEmpty(t) == NumRows(t) = 0 \/ NumCols(t) = 0
\* DataFrame.isna().all().any(): some column is missing on every date
SomeColumnAllNa(t) ==
    \E j \in 1..NumCols(t) : \A i \in 1..NumRows(t) : IsNaN(t.rows[i][j])
DropNaAll(t) ==
    Table(t.cols, SelectSeq(t.rows, LAMBDA r : \E j \in 1..Len(r) : ~IsNaN(r[j])))
\* DataFrame.dropna(): the rows without a missing value, in order
DropNa(t) == Table(t.cols, SelectSeq(t.rows, LAMBDA r : ~RowHasNa(r)))

MsgNoTickers == "Error: No stocks entered yet! Run get_user_input() first."
MsgEmpty == "Error: No valid data returned for these tickers!"
MsgMissing == "Error: Some tickers have no data!"
MsgShort == "Error: Not enough data points to analyze!"
MsgFetch == "Error fetching data"
MsgNoData == "Error: No data available! Run fetch_data() first."
MsgNotSimulated == "Error: Run simulate_portfolio() first!"
MsgResults == "=== Portfolio Simulator Results ==="

\* fetch_data after the download: the message printed and the table kept
CleanKeepShort(t) ==
    IF IsEmpty(t) THEN [msg |-> MsgEmpty, data |-> None]
    ELSE IF SomeColumnAllNa(t) THEN [msg |-> MsgMissing, data |-> None]
    ELSE IF NumRows(DropNa(t)) < 2 THEN [msg |-> MsgShort, data |-> Some(DropNa(t))]
    ELSE [msg |-> "", data |-> Some(DropNa(t))]
CleanDropAll(t) ==
    IF IsEmpty(t) THEN [msg |-> MsgEmpty, data |-> None]
    ELSE IF SomeColumnAllNa(t) THEN [msg |-> MsgMissing, data |-> None]
    ELSE IF NumRows(DropNaAll(t)) < 2 THEN [msg |-> MsgShort, data |-> None]
    ELSE [msg |-> "", data |-> Some(DropNaAll(t))]
Clean(t) ==
    IF IsEmpty(t) THEN [msg |-> MsgEmpty, data |-> None]
    ELSE IF SomeColumnAllNa(t) THEN [msg |-> MsgMissing, data |-> None]
    ELSE IF NumRows(DropNa(t)) < 2 THEN [msg |-> MsgShort, data |-> None]
    ELSE [msg |-> "", data |-> Some(DropNa(t))]

-----------------------------------------------------------------------------
(* simulate_portfolio's computations *)

Min(a, b) == IF a < b THEN a ELSE b

\* [cash * w / data[ticker].iloc[0] for w, ticker in zip(weights, tickers)]
Shares(cash, ws, ts, t) ==
    [i \in 1..Min(Len(ws), Len(ts)) |-> Div(Mul(cash, ws[i]), Price(t, ts[i], 1))]

\* (data * shares).sum(axis=1): the list multiplies the columns by position
ValueSeries(t, shares) ==
    [i \in 1..NumRows(t) |->
        SumSkipNa([j \in 1..NumCols(t) |-> Mul(t.rows[i][j], shares[j])])]

\* Series.pct_change().dropna()
DailyReturns(pv) ==
    DropNaN([i \in 1..(Len(pv) - 1) |-> Sub(Div(pv[i + 1], pv[i]), One)])

TotalReturn(pv, cash) == Div(Sub(pv[Len(pv)], cash), cash)

\* (1 + total_return) ** (252 / len(data)) - 1, kept as base and exponent
AnnualReturn(total_return, n) ==
    [base |-> Add(One, total_return), exponent |-> Norm(TradingDays, n)]

\* Series.std(): the sample variance (ddof = 1), NaN below two values
Variance(rs) ==
    IF Len(rs) < 2 THEN NaN
    ELSE LET mean == Div(SumSeq(rs), F(Len(rs)))
             sq == [i \in 1..Len(rs) |-> Mul(Sub(rs[i], mean), Sub(rs[i], mean))]
         IN  Div(SumSeq(sq), F(Len(rs) - 1))

\* daily_returns.std() * np.sqrt(252), kept as the number under the root
AnnualVol(rs) == [squared |-> Mul(Variance(rs), F(TradingDays))]

\* annual_vol > 0
VolPositive(vol) == Gt(vol.squared, Zero)

\* risk_free_rate = 0.02
RiskFreeRate == Norm(2, 100)

SharpeZero == [k |-> "0"]
SharpeQuotient(annual_return, annual_vol) ==
    [k |-> "quotient", ret |-> annual_return, rf |-> RiskFreeRate, vol |-> annual_vol]
SharpeUnguarded(annual_return, annual_vol) ==
    SharpeQuotient(annual_return, annual_vol)
\* (annual_return - risk_free_rate) / annual_vol if annual_vol > 0 else 0
SharpeRatio(annual_return, annual_vol) ==
    IF VolPositive(annual_vol) THEN SharpeQuotient(annual_return, annual_vol)
    ELSE SharpeZero

\* (data[t].iloc[-1] / data[t].iloc[0] - 1) * 100 for t in tickers
IndividualReturns(ts, t) ==
    [i \in 1..Len(ts) |->
        Mul(Sub(Div(Price(t, ts[i], NumRows(t)), Price(t, ts[i], 1)), One), F(100))]

\* np.argmax: the first NaN if there is one, else the first greatest entry
ArgMax(xs) ==
    IF \E i \in 1..Len(xs) : IsNaN(xs[i])
    THEN CHOOSE i \in 1..Len(xs) :
            IsNaN(xs[i]) /\ \A j \in 1..(i - 1) : ~IsNaN(xs[j])
    ELSE CHOOSE i \in 1..Len(xs) :
            /\ \A j \in 1..Len(xs) : Le(xs[j], xs[i])
            /\ \A j \in 1..(i - 1) : Lt(xs[j], xs[i])
\* np.argmin: the first NaN if there is one, else the first least entry
ArgMin(xs) ==
    IF \E i \in 1..Len(xs) : IsNaN(xs[i])
    THEN CHOOSE i \in 1..Len(xs) :
            IsNaN(xs[i]) /\ \A j \in 1..(i - 1) : ~IsNaN(xs[j])
    ELSE CHOOSE i \in 1..Len(xs) :
            /\ \A j \in 1..Len(xs) : Le(xs[i], xs[j])
            /\ \A j \in 1..(i - 1) : Lt(xs[i], xs[j])

-----------------------------------------------------------------------------
(* display_and_save_results' computations *)

\* Series.max() and cummax(): NaN entries are skipped, NaN if nothing is left
MaxSkipNa(xs) ==
    LET ys == DropNaN(xs)
    IN  IF ys = <<>> THEN NaN
        ELSE ys[CHOOSE i \in 1..Len(ys) : \A j \in 1..Len(ys) : Le(ys[j], ys[i])]
CumMax(pv) == [i \in 1..Len(pv) |-> MaxSkipNa(SubSeq(pv, 1, i))]

\* ((pv.cummax() - pv) / pv.cummax()).max()
MaxDrawdown(pv) ==
    MaxSkipNa([i \in 1..Len(pv) |-> Div(Sub(CumMax(pv)[i], pv[i]), CumMax(pv)[i])])

\* (benchmark_data / benchmark_data.iloc[0]) * initial_cash
Rescale(prices, cash) ==
    [i \in 1..Len(prices) |-> Mul(Div(prices[i], prices[1]), cash)]

\* compare_to_benchmark after the download: the series returned (None after a
\* caught exception) and the exception that escapes it ("" for none)
BenchmarkUncaught(d, outcome, cash) ==
    IF d = None THEN [raised |-> "", value |-> None]
    ELSE IF outcome.exception THEN [raised |-> "Exception", value |-> None]
    ELSE IF outcome.prices = <<>> THEN [raised |-> "IndexError", value |-> None]
    ELSE [raised |-> "", value |-> Some(Rescale(outcome.prices, cash))]
CompareToBenchmark(d, outcome, cash) ==
    IF d = None THEN [raised |-> "", value |-> None]
    ELSE IF outcome.exception THEN [raised |-> "", value |-> None]
    ELSE IF outcome.prices = <<>> THEN [raised |-> "", value |-> None]
    ELSE [raised |-> "", value |-> Some(Rescale(outcome.prices, cash))]

-----------------------------------------------------------------------------
(* The lines a user types and their conversions *)

Digits == [t \in {"0", "1", "2", "3", "6"} |->
              CASE t = "0" -> 0 [] t = "1" -> 1 [] t = "2" -> 2
                [] t = "3" -> 3 [] t = "6" -> 6]

\* float(text): None stands for ValueError
ParseFloat(text) ==
    IF text \in DOMAIN Digits THEN Some(F(Digits[text]))
    ELSE IF text = "-1" THEN Some(F(-1))
    ELSE IF text = "nan" THEN Some(NaN)
    ELSE IF text = "inf" THEN Some(Inf)
    ELSE None

\* int(text): None stands for ValueError
ParseInt(text) ==
    IF text \in DOMAIN Digits THEN Some(Digits[text])
    ELSE None

\* str.upper() on the symbols typed
Upper(text) ==
    CASE text = "a" -> "A"
      [] text = "b" -> "B"
      [] OTHER -> text

CashLines == {"abc", "0", "-1", "2", "nan"}
WeightTexts == {"x", "0", "-1", "1", "3", "nan"}
\* an entry after strip().lower(), as the words split() gives
StockLines ==
    {<<"done">>, <<"a">>, <<"a", "1", "1">>}
        \cup {<<t, w>> : t \in {"a", "b"}, w \in WeightTexts}
\* a period as its count and its last letter
PeriodLines == {<<"1", "y">>, <<"x", "y">>, <<"x", "m">>, <<"1", "d">>}

\* a symbol is requested once: the columns a Price Source returns for a
\* repeated symbol are not determined by this program
NotYetEntered(line, ts) ==
    Len(line) = 2 => \A i \in 1..Len(ts) : ts[i] # Upper(line[1])

-----------------------------------------------------------------------------
(* The Price Source: what yf.download may return *)

Prices == {0, 1, 2}
\* the prices downloaded for a free caller
ApiPrices == {1, 2}
Cells(prices) == {NaN} \cup {F(p) : p \in prices}

SeqsUpTo(S, n) == UNION {[1..k -> S] : k \in 0..n}

\* the orders in which the columns of the requested symbols may come
ColumnOrders(ts) ==
    LET S == {ts[i] : i \in 1..Len(ts)}
    IN  {c \in [1..Cardinality(S) -> S] :
            \A i, j \in 1..Cardinality(S) : c[i] = c[j] => i = j}

Downloads(ts, maxRows, prices) ==
    {[exception |-> TRUE]}
        \cup {[exception |-> FALSE, table |-> Table(c, r)] :
                c \in ColumnOrders(ts),
                r \in SeqsUpTo([1..Cardinality({ts[i] : i \in 1..Len(ts)}) -> Cells(prices)],
                               maxRows)}

BenchmarkDownloads ==
    {[exception |-> TRUE]}
        \cup {[exception |-> FALSE, prices |-> ps] :
                ps \in {<<>>, <<F(1), F(2)>>, <<F(2), F(1)>>}}

-----------------------------------------------------------------------------
(* The callers: the __main__ script and a free caller of the methods *)

Script == <<"get_user_input", "fetch_data", "simulate_portfolio",
            "display_and_save_results", "exit">>

Callable(method) ==
    /\ pc = "idle"
    /\ IF stage = "api"
       THEN /\ calls <= MaxApiCalls
            /\ method = "fetch_data" => fetches < MaxApiFetches
       ELSE stage = method

\* where the caller is after the call returns, or is left by exception exc
After(exc) ==
    IF stage = "api" THEN "api"
    ELSE IF exc # "" THEN "exit"
    ELSE Script[(CHOOSE i \in 1..Len(Script) : Script[i] = stage) + 1]

RowBound == IF stage = "api" THEN MaxApiRows ELSE MaxRows
PriceBound == IF stage = "api" THEN ApiPrices ELSE Prices

fields == <<initial_cash, tickers, weights, data, portfolio_value, sharpe_ratio,
            best_stock, worst_stock, start_date>>
results == <<portfolio_value, sharpe_ratio, best_stock, worst_stock, simulated_from>>
outputs == <<report, chart, files>>
downloads == <<raw, fetches, bench_fetches, bench>>

InitFields ==
    /\ initial_cash = None
    /\ tickers = <<>>
    /\ weights = <<>>
    /\ data = None
    /\ portfolio_value = None
    /\ sharpe_ratio = None
    /\ best_stock = None
    /\ worst_stock = None
    /\ start_date = None
    /\ pc = "idle"
    /\ calls = 0
    /\ raw = None
    /\ shown = ""
    /\ raised = ""
    /\ report = None
    /\ chart = None
    /\ files = {}
    /\ fetches = 0
    /\ bench_fetches = 0
    /\ bench = "none"
    /\ simulated_from = None

Init == InitFields /\ stage = "get_user_input"

\* requests get_user_input accepts (the typed lines are in the comments)
Requests ==
    {[cash |-> F(2), tickers |-> <<"A">>, weights |-> <<One>>],             \* 2, a 3, done
     [cash |-> F(2), tickers |-> <<"A", "B">>,
                     weights |-> <<Norm(1, 4), Norm(3, 4)>>],                \* 2, a 1, b 3, done
     [cash |-> F(2), tickers |-> <<"B", "A">>,
                     weights |-> <<Norm(1, 4), Norm(3, 4)>>],                \* 2, b 1, a 3, done
     [cash |-> F(2), tickers |-> <<"A", "B">>, weights |-> <<NaN, NaN>>]}    \* 2, a nan, b 1, done

\* the object when get_user_input has returned with request r, for caller st
AfterGetUserInput(r, st) ==
    /\ initial_cash = Some(r.cash)
    /\ tickers = r.tickers
    /\ weights = r.weights
    /\ start_date = Some(DaysPerYear)
    /\ data = None
    /\ portfolio_value = None
    /\ sharpe_ratio = None
    /\ best_stock = None
    /\ worst_stock = None
    /\ pc = "idle"
    /\ stage = st
    /\ calls = 1
    /\ raw = None
    /\ shown = "=== Portfolio Simulator ==="
    /\ raised = ""
    /\ report = None
    /\ chart = None
    /\ files = {}
    /\ fetches = 0
    /\ bench_fetches = 0
    /\ bench = "none"
    /\ simulated_from = None

\* the tables without a gap, of 2 to maxRows rows, fetch_data may keep for ts
CleanTables(ts, maxRows) ==
    {Table(c, r) :
        c \in ColumnOrders(ts),
        r \in {x \in SeqsUpTo([1..Len(ts) -> {F(p) : p \in Prices}], maxRows) :
                 Len(x) >= 2}}

\* the object when fetch_data has returned with table t kept, in the script
AfterFetchData(r, t) ==
    /\ initial_cash = Some(r.cash)
    /\ tickers = r.tickers
    /\ weights = r.weights
    /\ start_date = Some(DaysPerYear)
    /\ data = Some(t)
    /\ portfolio_value = None
    /\ sharpe_ratio = None
    /\ best_stock = None
    /\ worst_stock = None
    /\ pc = "idle"
    /\ stage = "simulate_portfolio"
    /\ calls = 2
    /\ raw = Some([exception |-> FALSE, table |-> t])
    /\ shown = ""
    /\ raised = ""
    /\ report = None
    /\ chart = None
    /\ files = {}
    /\ fetches = 1
    /\ bench_fetches = 0
    /\ bench = "none"
    /\ simulated_from = None

FetchInit == \E r \in Requests : AfterGetUserInput(r, "fetch_data")
SimulateInit ==
    \E r \in Requests : \E t \in CleanTables(r.tickers, MaxSimRows) :
        AfterFetchData(r, t)
ApiInit == \E r \in Requests : AfterGetUserInput(r, "api")

-----------------------------------------------------------------------------
(* get_user_input: one action per line read *)

GetUserInput ==
    /\ Callable("get_user_input")
    /\ pc' = "cash"
    /\ calls' = calls + 1
    /\ raised' = ""
    /\ shown' = "=== Portfolio Simulator ==="
    /\ UNCHANGED <<fields, stage, simulated_from, outputs, downloads>>

\* the loop asking for the initial investment
EnterCash ==
    /\ pc = "cash"
    /\ \E line \in CashLines :
        LET cash == ParseFloat(line) IN
        IF cash = None
        THEN UNCHANGED <<initial_cash, pc>>
        ELSE /\ initial_cash' = cash
             /\ pc' = IF Le(cash.v, Zero) THEN "cash" ELSE "stocks"
    /\ UNCHANGED <<tickers, weights, data, start_date, results, stage, calls,
                   shown, raised, outputs, downloads>>

\* the loop asking for the stocks, and the normalisation of the weights
EnterStock ==
    /\ pc = "stocks"
    /\ \E line \in StockLines :
        /\ NotYetEntered(line, tickers)
        /\ IF line = <<"done">>
           THEN IF tickers = <<>>
                THEN UNCHANGED <<initial_cash, tickers, weights, pc, stage>>
                ELSE LET total_weight == SumSeq(weights) IN
                     IF FloatEq(total_weight, Zero)
                     THEN /\ tickers' = <<>>
                          /\ weights' = <<>>
                          /\ initial_cash' = None
                          /\ pc' = "idle"
                          /\ stage' = After("")
                     ELSE /\ weights' = [i \in 1..Len(weights) |->
                                            Div(weights[i], total_weight)]
                          /\ pc' = "period"
                          /\ UNCHANGED <<initial_cash, tickers, stage>>
           ELSE LET weight == IF Len(line) = 2 THEN ParseFloat(line[2]) ELSE None IN
                IF weight = None \/ Le(weight.v, Zero)
                THEN UNCHANGED <<initial_cash, tickers, weights, pc, stage>>
                ELSE /\ tickers' = Append(tickers, Upper(line[1]))
                     /\ weights' = Append(weights, weight.v)
                     /\ UNCHANGED <<initial_cash, pc, stage>>
    /\ UNCHANGED <<data, start_date, results, calls, shown, raised, outputs,
                   downloads>>

\* the loop asking for the time period
EnterPeriod ==
    /\ pc = "period"
    /\ \E line \in PeriodLines :
        LET count == ParseInt(line[1])
            days == IF line[2] = "y" THEN DaysPerYear ELSE DaysPerMonth
        IN  IF line[2] \in {"y", "m"} /\ count # None
            THEN /\ start_date' = Some(count.v * days)
                 /\ pc' = "idle"
                 /\ stage' = After("")
            ELSE UNCHANGED <<start_date, pc, stage>>
    /\ UNCHANGED <<initial_cash, tickers, weights, data, results, calls, shown,
                   raised, outputs, downloads>>

-----------------------------------------------------------------------------
(* fetch_data *)

FetchDataOf(maxRows) ==
    /\ Callable("fetch_data")
    /\ calls' = calls + 1
    /\ raised' = ""
    /\ stage' = After("")
    /\ IF tickers = <<>>
       THEN /\ shown' = MsgNoTickers
            /\ UNCHANGED <<data, raw, fetches>>
       ELSE \E response \in Downloads(tickers, maxRows, PriceBound) :
            /\ raw' = Some(response)
            /\ fetches' = fetches + 1
            /\ IF response.exception
               THEN /\ shown' = MsgFetch
                    /\ data' = None
               ELSE /\ shown' = Clean(response.table).msg
                    /\ data' = Clean(response.table).data
    /\ UNCHANGED <<initial_cash, tickers, weights, start_date, results, pc,
                   outputs, bench_fetches, bench>>

FetchData == FetchDataOf(RowBound)

-----------------------------------------------------------------------------
(* simulate_portfolio *)

SimulatePortfolio ==
    /\ Callable("simulate_portfolio")
    /\ calls' = calls + 1
    /\ IF data = None
       THEN /\ shown' = MsgNoData
            /\ raised' = ""
            /\ UNCHANGED results
       ELSE IF \E i \in 1..Len(tickers) : ~HasColumn(data.v, tickers[i])
       THEN \* self.data[ticker] of a symbol the table does not hold
            /\ raised' = "KeyError"
            /\ UNCHANGED <<shown, results>>
       ELSE LET shares == Shares(initial_cash.v, weights, tickers, data.v) IN
            IF Len(shares) # NumCols(data.v)
            THEN \* data * shares with a list of another length
                 /\ raised' = "ValueError"
                 /\ UNCHANGED <<shown, results>>
            ELSE LET pv == ValueSeries(data.v, shares)
                     daily_returns == DailyReturns(pv)
                     total_return == TotalReturn(pv, initial_cash.v)
                     annual_return == AnnualReturn(total_return, NumRows(data.v))
                     annual_vol == AnnualVol(daily_returns)
                     individual_returns == IndividualReturns(tickers, data.v)
                 IN  /\ portfolio_value' = Some(pv)
                     /\ sharpe_ratio' = Some(SharpeRatio(annual_return, annual_vol))
                     /\ best_stock' = Some(tickers[ArgMax(individual_returns)])
                     /\ worst_stock' = Some(tickers[ArgMin(individual_returns)])
                     /\ simulated_from' = data
                     /\ raised' = ""
                     /\ shown' = ""
    /\ stage' = After(raised')
    /\ UNCHANGED <<initial_cash, tickers, weights, data, start_date, pc, outputs,
                   downloads>>

-----------------------------------------------------------------------------
(* display_and_save_results *)

Metrics(pv) ==
    [stocks |-> tickers,
     allocation |-> weights,
     final_value |-> pv[Len(pv)],
     total_return |-> TotalReturn(pv, initial_cash.v),
     annual_return |-> AnnualReturn(TotalReturn(pv, initial_cash.v), NumRows(data.v)),
     annual_vol |-> AnnualVol(DailyReturns(pv)),
     max_drawdown |-> MaxDrawdown(pv),
     sharpe_ratio |-> sharpe_ratio,
     best |-> best_stock,
     worst |-> worst_stock]

DisplayAndSaveResults ==
    /\ Callable("display_and_save_results")
    /\ calls' = calls + 1
    /\ IF portfolio_value = None
       THEN /\ shown' = MsgNotSimulated
            /\ raised' = ""
            /\ UNCHANGED <<outputs, bench_fetches, bench>>
       ELSE IF data = None
       THEN \* len(self.data) of None, before anything is printed
            /\ raised' = "TypeError"
            /\ UNCHANGED <<shown, outputs, bench_fetches, bench>>
       ELSE \E outcome \in BenchmarkDownloads :
            LET benchmark == CompareToBenchmark(data, outcome, initial_cash.v) IN
            /\ shown' = MsgResults
            /\ report' = Some(Metrics(portfolio_value.v))
            /\ bench_fetches' = bench_fetches + 1
            /\ bench' = IF outcome.exception THEN "exception"
                        ELSE IF outcome.prices = <<>> THEN "empty" ELSE "prices"
            /\ raised' = benchmark.raised
            /\ IF benchmark.raised # ""
               THEN UNCHANGED <<chart, files>>
               ELSE /\ chart' = Some([portfolio |-> portfolio_value.v,
                                      benchmark |-> benchmark.value])
                    /\ files' = files \cup {"portfolio_result.png", "portfolio_value.csv"}
    /\ stage' = After(raised')
    /\ UNCHANGED <<fields, pc, simulated_from, raw, fetches>>

-----------------------------------------------------------------------------

Next ==
    \/ GetUserInput
    \/ EnterCash
    \/ EnterStock
    \/ EnterPeriod
    \/ FetchData
    \/ SimulatePortfolio
    \/ DisplayAndSaveResults

\* the program as run: __main__ calls the four methods once, in order
Spec == Init /\ [][Next]_vars

\* fetch_data alone, on every request and every download
FetchNext == FetchDataOf(MaxFetchRows)
FetchSpec == FetchInit /\ [][FetchNext]_vars

\* simulate_portfolio alone, on every request and every cleaned table
SimulateNext == SimulatePortfolio
SimulateSpec == SimulateInit /\ [][SimulateNext]_vars

\* one object, after get_user_input, whose other methods are called in any order
ApiNext ==
    \/ FetchData
    \/ SimulatePortfolio
    \/ DisplayAndSaveResults
ApiSpec == ApiInit /\ [][ApiNext]_vars

-----------------------------------------------------------------------------
(* Vocabulary of the properties *)

RequestedSymbols == {tickers[i] : i \in 1..Len(tickers)}

\* the download of the last fetch_data returned a table
Downloaded == raw # None /\ ~raw.v.exception

\* the dates of table t on which every column has a price
CompleteDates(t) ==
    {i \in 1..NumRows(t) : \A j \in 1..NumCols(t) : ~IsNaN(t.rows[i][j])}
\* the k-th of these dates
NthCompleteDate(t, k) ==
    CHOOSE i \in CompleteDates(t) :
        Cardinality({x \in CompleteDates(t) : x <= i}) = k
\* symbol s has no price on any date of t
NeverPriced(t, s) == \A i \in 1..NumRows(t) : IsNaN(Price(t, s, i))

\* fetch_data has been called by the script
FetchDone == stage \in {"simulate_portfolio", "display_and_save_results", "exit"}
SimulateDone == stage \in {"display_and_save_results", "exit"}

\* the last download of fetch_data failed or left fewer than 2 complete rows
FetchFailed ==
    /\ raw # None
    /\ \/ raw.v.exception
       \/ Cardinality(CompleteDates(raw.v.table)) < 2
FetchSucceeded ==
    /\ Downloaded
    /\ Cardinality(CompleteDates(raw.v.table)) >= 2

AllFiles == {"portfolio_result.png", "portfolio_value.csv"}

PositivePrices(t) ==
    \A i \in 1..NumRows(t) : \A j \in 1..NumCols(t) : Gt(t.rows[i][j], Zero)
FinitePositive(x) == IsFinite(x) /\ Gt(x, Zero)
SoundRequest ==
    /\ initial_cash # None
    /\ FinitePositive(initial_cash.v)
    /\ \A i \in 1..Len(weights) : FinitePositive(weights[i])

\* the share count of the k-th ticker, from the first-date price of its symbol
SharesOf(k) == Div(Mul(initial_cash.v, weights[k]), Price(data.v, tickers[k], 1))
\* the sum over the requested symbols of shares[s] * price[date i][s]
ValueBySymbol(i) ==
    SumSeq([k \in 1..Len(tickers) |-> Mul(SharesOf(k), Price(data.v, tickers[k], i))])

\* price[last]/price[first] - 1 of symbol s in the table
ReturnOf(s) == Sub(Div(Price(data.v, s, NumRows(data.v)), Price(data.v, s, 1)), One)
Position(s) == CHOOSE i \in 1..Len(tickers) : tickers[i] = s

\* the day-over-day ratios of the value series that are numbers
Ratios(pv) ==
    LET all == [i \in 1..(Len(pv) - 1) |-> Div(pv[i + 1], pv[i])]
    IN  SelectSeq(all, LAMBDA x : ~IsNaN(x))
\* the volatility is a number, and it is zero or positive
VolDefined(pv) ==
    /\ Len(Ratios(pv)) >= 2
    /\ \A i \in 1..Len(Ratios(pv)) : IsFinite(Ratios(pv)[i])
VolIsZero(pv) ==
    /\ VolDefined(pv)
    /\ \A i \in 1..Len(Ratios(pv)) : Ratios(pv)[i] = Ratios(pv)[1]
VolIsPositive(pv) ==
    /\ VolDefined(pv)
    /\ \E i \in 1..Len(Ratios(pv)) : Ratios(pv)[i] # Ratios(pv)[1]
\* 252 times the sample variance of the daily returns, as
\* (sum of squares - (sum)^2 / n) / (n - 1)
SquaredVol(pv) ==
    LET rs == [i \in 1..Len(Ratios(pv)) |-> Sub(Ratios(pv)[i], One)]
        n == F(Len(rs))
        squares == SumSeq([i \in 1..Len(rs) |-> Mul(rs[i], rs[i])])
        total == SumSeq(rs)
    IN  Mul(F(TradingDays),
            Div(Sub(squares, Div(Mul(total, total), n)), Sub(n, One)))

NonDecreasing(pv) == \A i \in 1..(Len(pv) - 1) : Le(pv[i], pv[i + 1])

-----------------------------------------------------------------------------
(* C1 *)

\* C1 (as claimed): after simulate_portfolio, on a request of finite positive
\* cash and weights and a table of positive prices, the value of every date is
\* the sum over the requested symbols of the symbol's share count (cash *
\* weight / first-date price of that symbol) times that same symbol's price,
\* whatever the order of the tickers and of the table's columns.
C1_ValueIsSumBySymbol ==
    (/\ SimulateDone
     /\ portfolio_value # None
     /\ data # None
     /\ SoundRequest
     /\ PositivePrices(data.v))
    => /\ Len(portfolio_value.v) = NumRows(data.v)
       /\ \A i \in 1..NumRows(data.v) : portfolio_value.v[i] = ValueBySymbol(i)

-----------------------------------------------------------------------------
(* C2 *)

\* C2: after fetch_data has downloaded a table, exactly one outcome holds, in
\* this order: no rows -> the EmptyData message; a requested symbol without a
\* price on any date -> the MissingSymbolData message; fewer than 2 complete
\* rows -> the InsufficientHistory message; otherwise data is the table of
\* exactly the complete rows of the download, in date order, at least 2 of
\* them.  In every error case (a failed download too) data is None.
C2_NormalizerOutcome ==
    raw # None =>
        IF raw.v.exception THEN shown = MsgFetch /\ data = None
        ELSE LET t == raw.v.table
                 n == Cardinality(CompleteDates(t))
             IN  IF NumRows(t) = 0 THEN shown = MsgEmpty /\ data = None
                 ELSE IF \E s \in RequestedSymbols : NeverPriced(t, s)
                      THEN shown = MsgMissing /\ data = None
                 ELSE IF n < 2 THEN shown = MsgShort /\ data = None
                 ELSE /\ shown = ""
                      /\ data # None
                      /\ data.v.cols = t.cols
                      /\ NumRows(data.v) = n
                      /\ n >= 2
                      /\ \A k \in 1..n : data.v.rows[k] = t.rows[NthCompleteDate(t, k)]

\* a download of 3 rows of which the middle one has a gap, cleaned to 2 rows
C2_Witness ==
    /\ Downloaded
    /\ NumRows(raw.v.table) = 3
    /\ CompleteDates(raw.v.table) = {1, 3}
    /\ data # None
    /\ NumRows(data.v) = 2

-----------------------------------------------------------------------------
(* C3 *)

\* C3 (as claimed): when the first-date price of a requested symbol is zero
\* or negative, simulate_portfolio (here on a request of finite positive cash
\* and weights) fails with InvalidPrice and produces no value series and no
\* metric.
C3_ZeroPriceIsRefused ==
    (/\ SimulateDone
     /\ data # None
     /\ SoundRequest
     /\ \E s \in RequestedSymbols : Le(Price(data.v, s, 1), Zero))
    => /\ raised = "InvalidPrice"
       /\ portfolio_value = None
       /\ sharpe_ratio = None
       /\ best_stock = None
       /\ worst_stock = None

-----------------------------------------------------------------------------
(* C4 *)

C4_PortfolioOutputKept ==
    bench \in {"exception", "empty"} =>
        /\ raised = ""
        /\ stage = "exit"
        /\ report # None
        /\ report.v.final_value = portfolio_value.v[Len(portfolio_value.v)]
        /\ report.v.sharpe_ratio = sharpe_ratio
        /\ report.v.best = best_stock
        /\ report.v.worst = worst_stock
        /\ chart # None
        /\ chart.v.portfolio = portfolio_value.v
        /\ chart.v.benchmark = None
        /\ AllFiles \subseteq files
C4_ResultsUntouched ==
    bench_fetches' # bench_fetches =>
        UNCHANGED <<portfolio_value, sharpe_ratio, best_stock, worst_stock, data>>

\* C4: when the benchmark download of display_and_save_results raises or
\* returns nothing, the call still completes: the step leaves portfolio_value,
\* sharpe_ratio, best_stock and worst_stock unchanged, the metrics are
\* reported, the chart and the data file are written, and the chart holds the
\* portfolio curve without a benchmark curve.
C4_BenchmarkFailureIsIsolated ==
    [](C4_PortfolioOutputKept) /\ [][C4_ResultsUntouched]_vars

\* a run in which the benchmark download raised and both files were written
C4_Witness ==
    /\ bench = "exception"
    /\ stage = "exit"
    /\ AllFiles \subseteq files
    /\ chart # None

-----------------------------------------------------------------------------
(* C5 *)

-----------------------------------------------------------------------------
(* C6 *)

\* C6: after simulate_portfolio the Sharpe ratio is exactly 0 whenever the
\* volatility of the daily returns is 0 (at least two returns, all equal); it
\* is a quotient only over a positive volatility, never over a zero one; and
\* when the volatility is positive it is the quotient of (1 + total_return) ^
\* (252 / N) - 1 less 0.02 by the square root of 252 times the sample variance.
C6_SharpeGuarded ==
    portfolio_value # None =>
        LET pv == portfolio_value.v IN
        /\ sharpe_ratio # None
        /\ VolIsZero(pv) => sharpe_ratio.v = SharpeZero
        /\ sharpe_ratio.v # SharpeZero =>
            /\ sharpe_ratio.v.k = "quotient"
            /\ Gt(sharpe_ratio.v.vol.squared, Zero)
        /\ VolIsPositive(pv) =>
            /\ sharpe_ratio.v.k = "quotient"
            /\ sharpe_ratio.v.ret.base =
                   Add(One, Div(Sub(pv[Len(pv)], initial_cash.v), initial_cash.v))
            /\ sharpe_ratio.v.ret.exponent = Norm(TradingDays, Len(pv))
            /\ sharpe_ratio.v.rf = Norm(1, 50)
            /\ sharpe_ratio.v.vol.squared = SquaredVol(pv)

\* a simulation of constant positive prices over 3 dates: volatility 0
C6_Witness ==
    /\ portfolio_value # None
    /\ Len(portfolio_value.v) = 3
    /\ PositivePrices(data.v)
    /\ SoundRequest
    /\ VolIsZero(portfolio_value.v)
    /\ sharpe_ratio.v = SharpeZero

-----------------------------------------------------------------------------
(* C7 *)

\* C7 (as claimed): after simulate_portfolio (here on a request of finite
\* positive cash and weights), best_stock is the first ticker
\* whose return price[last]/price[first] - 1 is maximal and worst_stock the
\* first whose return is minimal: return(best) >= return(s) >= return(worst)
\* for every requested symbol s, and no earlier ticker equals the best's (the
\* worst's) return.
C7_BestAndWorst ==
    (SimulateDone /\ portfolio_value # None /\ data # None /\ SoundRequest) =>
        LET best == best_stock.v
            worst == worst_stock.v
        IN  /\ best \in RequestedSymbols
            /\ worst \in RequestedSymbols
            /\ \A s \in RequestedSymbols :
                /\ Ge(ReturnOf(best), ReturnOf(s))
                /\ Ge(ReturnOf(s), ReturnOf(worst))
                /\ Position(s) < Position(best) => Lt(ReturnOf(s), ReturnOf(best))
                /\ Position(s) < Position(worst) => Gt(ReturnOf(s), ReturnOf(worst))

-----------------------------------------------------------------------------
(* C8 *)

\* C8 (as claimed): for a value series built from positive prices the
\* reported maximum drawdown lies in [0, 1], and it is 0 when the series
\* never decreases.
C8_DrawdownInUnitInterval ==
    (report # None /\ data # None /\ PositivePrices(data.v)) =>
        /\ Le(Zero, report.v.max_drawdown)
        /\ Le(report.v.max_drawdown, One)
        /\ NonDecreasing(portfolio_value.v) => report.v.max_drawdown = Zero

-----------------------------------------------------------------------------
(* C9 *)

\* C9 (as claimed): once get_user_input has accepted the stocks, tickers and
\* weights have the same non-zero length, every weight is > 0 and the weights
\* sum to 1.
C9_WeightsNormalised ==
    (pc = "period" \/ (pc = "idle" /\ stage # "get_user_input")) =>
        /\ Len(tickers) = Len(weights)
        /\ Len(tickers) > 0
        /\ \A i \in 1..Len(weights) : Gt(weights[i], Zero)
        /\ FloatEq(SumSeq(weights), One)

-----------------------------------------------------------------------------
(* C10 *)

\* C10 (as claimed): after any sequence of calls to fetch_data,
\* simulate_portfolio and display_and_save_results, whenever portfolio_value
\* is set, data is set and is the table the results were computed from, and
\* display_and_save_results never reads a missing table.
C10_ResultsMatchData ==
    /\ portfolio_value # None => (data # None /\ data = simulated_from)
    /\ raised # "TypeError"

====
